---- MODULE Spec2Model ----
(***************************************************************************)
(* Model of the sorted-table helpers of pyems/utilities.py:                *)
(*   array_index, sort_table_by_col, table_insertion_idx, interp_lin and   *)
(*   table_interp_val.                                                     *)
(*                                                                         *)
(* A table is a 2-D array: a function from the row indices 0..n-1 to rows, *)
(* a row a function from the column indices to integers.  Indices are      *)
(* zero-based as in the source, and a negative index counts from the end.  *)
(* A call's outcome is a record: a returned value or the exception raised. *)
(* Numbers returned by the interpolation are exact rationals <<num, den>>  *)
(* in lowest terms (the source computes in floating point).                *)
(***************************************************************************)
EXTENDS Integers, Sequences, FiniteSets, TLC

VARIABLES table, sortedOn, sortedCopy, pc, call, ret, before

vars == <<table, sortedOn, sortedCopy, pc, call, ret, before>>

(* Bounds of the model. *)
MaxRows == 3
MaxVal == 2

Cols == {0, 1}
NCols == Cardinality(Cols)
Vals == 0..MaxVal
ExtVals == -1..(MaxVal + 1)
Rows == [Cols -> Vals]
Tables == UNION {[0..(n - 1) -> Rows] : n \in 1..MaxRows}

len(a) == Cardinality(DOMAIN a)

(***************************************************************************)
(* Python indexing a[i] of a sequence of length n: valid for -n <= i < n,  *)
(* a negative i counting from the end; IndexError otherwise.               *)
(***************************************************************************)
ValidIndex(n, i) == -n <= i /\ i < n
NormIndex(n, i) == IF i < 0 THEN i + n ELSE i

(* arr[:, col]: the column as a 1-D array. *)
Column(arr, col) == [i \in DOMAIN arr |-> arr[i][col]]

(* Rationals in lowest terms with a positive denominator. *)
Abs(x) == IF x < 0 THEN -x ELSE x

RECURSIVE Gcd(_, _)
Gcd(a, b) == IF b = 0 THEN a ELSE Gcd(b, a % b)

Rat(n, d) ==
    LET g == Gcd(Abs(n), Abs(d))
        s == IF d < 0 THEN -1 ELSE 1
    IN <<(s * n) \div g, (s * d) \div g>>

(* A call's outcome: a number, an index, or the exception raised. *)
Returned(v) == [kind |-> "value", val |-> v]
ReturnedIndex(i) == [kind |-> "index", val |-> i]
Raised(e) == [kind |-> e]

(***************************************************************************)
(* bisect.bisect_left / numpy.searchsorted(side='left'): binary search for *)
(* the leftmost insertion point of x in a[lo:hi].                          *)
(***************************************************************************)
RECURSIVE BinarySearchLeft(_, _, _, _)
BinarySearchLeft(a, x, lo, hi) ==
    IF lo < hi
    THEN LET mid == (lo + hi) \div 2
         IN IF a[mid] < x
            THEN BinarySearchLeft(a, x, mid + 1, hi)
            ELSE BinarySearchLeft(a, x, lo, mid)
    ELSE lo

bisect_left(a, x) == BinarySearchLeft(a, x, 0, len(a))

(* array_index(val, arr), utilities.py lines 58-79. *)
array_index(val, arr) ==
    LET n == len(arr)
        lbound_idx == bisect_left(arr, val)
        ubound_idx == lbound_idx + 1
    IN IF ~ValidIndex(n, lbound_idx) THEN Raised("IndexError")
       ELSE IF lbound_idx = n THEN ReturnedIndex(lbound_idx)
       ELSE IF ~ValidIndex(n, ubound_idx) THEN Raised("IndexError")
       ELSE IF val - arr[lbound_idx] < arr[ubound_idx] - val
            THEN ReturnedIndex(lbound_idx)
            ELSE ReturnedIndex(ubound_idx)

(***************************************************************************)
(* numpy.argsort(keys): an index permutation that puts the keys in         *)
(* ascending order.  The default sort kind is not stable, so the order of  *)
(* equal keys is any the build produces: the operator is the set of the    *)
(* possible results.                                                       *)
(***************************************************************************)
argsort(keys) ==
    LET n == len(keys)
        idx == 0..(n - 1)
    IN {p \in [idx -> idx] :
          /\ \A i, j \in idx : i # j => p[i] # p[j]
          /\ \A i \in idx : i + 1 < n => keys[p[i]] <= keys[p[i + 1]]}

(* arr[perm]: the rows of arr taken in the order of perm. *)
Take(arr, perm) == [i \in DOMAIN perm |-> arr[perm[i]]]

(* Mutant of sort_table_by_col: the column argument is ignored and the     *)
(* rows are ordered on column 0.                                           *)
sort_table_by_col_first_col(arr, col) ==
    {Take(arr, p) : p \in argsort(Column(arr, 0))}

(* sort_table_by_col(arr, col), utilities.py lines 99-103: the possible    *)
(* results, each a new array.                                              *)
sort_table_by_col(arr, col) ==
    {Take(arr, p) : p \in argsort(Column(arr, col))}

(* Mutant of table_insertion_idx: the search is right-biased (the         *)
(* insertion point after the keys equal to val).                           *)
RECURSIVE BinarySearchRight(_, _, _, _)
BinarySearchRight(a, x, lo, hi) ==
    IF lo < hi
    THEN LET mid == (lo + hi) \div 2
         IN IF a[mid] <= x
            THEN BinarySearchRight(a, x, mid + 1, hi)
            ELSE BinarySearchRight(a, x, lo, mid)
    ELSE lo

table_insertion_idx_right(val, arr, col) ==
    LET keys == Column(arr, col)
    IN BinarySearchRight(keys, val, 0, len(keys))

(* table_insertion_idx(val, arr, col), utilities.py lines 106-110. *)
table_insertion_idx(val, arr, col) ==
    LET keys == Column(arr, col)
    IN BinarySearchLeft(keys, val, 0, len(keys))

(* Mutant of interp_lin: the offset dx is taken from xhigh.                *)
interp_lin_dx_from_high(xval, xlow, xhigh, ylow, yhigh) ==
    IF xval < xlow \/ xval > xhigh THEN Raised("ValueError")
    ELSE IF xhigh - xlow = 0 THEN Raised("ZeroDivisionError")
    ELSE Returned(Rat(ylow * (xhigh - xlow) + (yhigh - ylow) * (xhigh - xval),
                      xhigh - xlow))

(* interp_lin(xval, xlow, xhigh, ylow, yhigh), utilities.py lines 113-129, *)
(* on Python numbers: the division by a zero span raises.                  *)
interp_lin(xval, xlow, xhigh, ylow, yhigh) ==
    IF xval < xlow \/ xval > xhigh THEN Raised("ValueError")
    ELSE IF xhigh - xlow = 0 THEN Raised("ZeroDivisionError")
    ELSE Returned(Rat(ylow * (xhigh - xlow) + (yhigh - ylow) * (xval - xlow),
                      xhigh - xlow))

(* arr[row][c] with Python index checks on both subscripts. *)
Element(arr, row, c) ==
    IF ValidIndex(len(arr), row) /\ ValidIndex(NCols, c)
    THEN Returned(Rat(arr[NormIndex(len(arr), row)][NormIndex(NCols, c)], 1))
    ELSE Raised("IndexError")

(* Mutant of table_interp_val: the clamp above the table returns the first *)
(* row's value.                                                            *)
table_interp_val_clamp_first(arr, target_col, sel_val, sel_col, permit_outside) ==
    LET n == len(arr)
        first == arr[0]
        last == arr[n - 1]
        ins_idx == table_insertion_idx(sel_val, arr, sel_col)
        low == arr[NormIndex(n, ins_idx - 1)]
        high == arr[ins_idx]
    IN IF n = 0 THEN Raised("IndexError")
       ELSE IF permit_outside /\ sel_val < first[sel_col]
            THEN Element(arr, 0, target_col)
       ELSE IF permit_outside /\ sel_val > last[sel_col]
            THEN Element(arr, 0, target_col)
       ELSE IF sel_val = first[sel_col] THEN Element(arr, 0, target_col)
       ELSE IF sel_val = last[sel_col] THEN Element(arr, -1, sel_val)
       ELSE IF ~ValidIndex(n, ins_idx - 1) THEN Raised("IndexError")
       ELSE IF ~ValidIndex(n, ins_idx) THEN Raised("IndexError")
       ELSE interp_lin(sel_val, low[sel_col], high[sel_col],
                       low[target_col], high[target_col])

(* table_interp_val(arr, target_col, sel_val, sel_col, permit_outside),    *)
(* utilities.py lines 132-164.                                             *)
table_interp_val(arr, target_col, sel_val, sel_col, permit_outside) ==
    LET n == len(arr)
        first == arr[0]
        last == arr[n - 1]
        ins_idx == table_insertion_idx(sel_val, arr, sel_col)
        low == arr[NormIndex(n, ins_idx - 1)]
        high == arr[ins_idx]
    IN IF n = 0 THEN Raised("IndexError")
       ELSE IF permit_outside /\ sel_val < first[sel_col]
            THEN Element(arr, 0, target_col)
       ELSE IF permit_outside /\ sel_val > last[sel_col]
            THEN Element(arr, -1, target_col)
       ELSE IF sel_val = first[sel_col] THEN Element(arr, 0, target_col)
       ELSE IF sel_val = last[sel_col] THEN Element(arr, -1, sel_val)
       ELSE IF ~ValidIndex(n, ins_idx - 1) THEN Raised("IndexError")
       ELSE IF ~ValidIndex(n, ins_idx) THEN Raised("IndexError")
       ELSE interp_lin(sel_val, low[sel_col], high[sel_col],
                       low[target_col], high[target_col])

(***************************************************************************)
(* The state machine: a caller holds a table, calls one helper at a time   *)
(* (pc "ready" -> "done") and resumes with the outcome.  `before` is the   *)
(* content of the array passed to the call when the call was made;         *)
(* `table` is its content afterwards.                                      *)
(***************************************************************************)
NoCall == [op |-> "none"]
NoRet == [kind |-> "none"]

Init ==
    /\ table \in Tables
    /\ sortedOn = {}
    /\ sortedCopy = table
    /\ pc = "ready"
    /\ call = NoCall
    /\ ret = NoRet
    /\ before = table

(* Mutant of SortCall: the sort reorders the array passed to it. *)
SortCallInPlace ==
    /\ pc = "ready"
    /\ \E col \in Cols :
         /\ call' = [op |-> "sort_table_by_col", col |-> col]
         /\ \E s \in sort_table_by_col(table, col) :
              /\ ret' = [kind |-> "table", val |-> s]
              /\ table' = s
    /\ before' = table
    /\ pc' = "done"
    /\ UNCHANGED <<sortedOn, sortedCopy>>

SortCall ==
    /\ pc = "ready"
    /\ \E col \in Cols :
         /\ call' = [op |-> "sort_table_by_col", col |-> col]
         /\ \E s \in sort_table_by_col(table, col) :
              ret' = [kind |-> "table", val |-> s]
    /\ before' = table
    /\ pc' = "done"
    /\ UNCHANGED <<table, sortedOn, sortedCopy>>

InsertionIdxCall ==
    /\ pc = "ready"
    /\ \E val \in ExtVals, col \in Cols :
         /\ call' = [op |-> "table_insertion_idx", val |-> val, col |-> col]
         /\ ret' = ReturnedIndex(table_insertion_idx(val, table, col))
    /\ before' = table
    /\ pc' = "done"
    /\ UNCHANGED <<table, sortedOn, sortedCopy>>

ArrayIndexCall ==
    /\ pc = "ready"
    /\ \E val \in ExtVals, col \in Cols :
         /\ call' = [op |-> "array_index", val |-> val, col |-> col,
                     arr |-> Column(table, col)]
         /\ ret' = array_index(val, Column(table, col))
    /\ before' = table
    /\ pc' = "done"
    /\ UNCHANGED <<table, sortedOn, sortedCopy>>

TableInterpCall ==
    /\ pc = "ready"
    /\ \E target_col \in Cols, sel_val \in ExtVals, sel_col \in Cols,
          permit_outside \in BOOLEAN :
         /\ call' = [op |-> "table_interp_val", target_col |-> target_col,
                     sel_val |-> sel_val, sel_col |-> sel_col,
                     permit_outside |-> permit_outside]
         /\ ret' = table_interp_val(table, target_col, sel_val, sel_col,
                                    permit_outside)
    /\ before' = table
    /\ pc' = "done"
    /\ UNCHANGED <<table, sortedOn, sortedCopy>>

(* The caller resumes; after a sort it keeps the returned table. *)
Resume ==
    /\ pc = "done"
    /\ IF call.op = "sort_table_by_col"
       THEN /\ table' = ret.val
            /\ sortedOn' = {call.col}
            /\ sortedCopy' = ret.val
       ELSE UNCHANGED <<table, sortedOn, sortedCopy>>
    /\ before' = table'
    /\ pc' = "ready"
    /\ call' = NoCall
    /\ ret' = NoRet

InterpLinCall ==
    /\ pc = "ready"
    /\ \E xval \in ExtVals, xlow \in Vals, xhigh \in Vals, ylow \in Vals,
          yhigh \in Vals :
         /\ call' = [op |-> "interp_lin", xval |-> xval, xlow |-> xlow,
                     xhigh |-> xhigh, ylow |-> ylow, yhigh |-> yhigh]
         /\ ret' = interp_lin(xval, xlow, xhigh, ylow, yhigh)
    /\ before' = table
    /\ pc' = "done"
    /\ UNCHANGED <<table, sortedOn, sortedCopy>>

Next ==
    \/ SortCall
    \/ InsertionIdxCall
    \/ ArrayIndexCall
    \/ TableInterpCall
    \/ Resume

Spec == Init /\ [][Next]_vars

(* interp_lin takes no table: its calls are explored from one fixed table. *)
InitLin ==
    /\ table = [i \in {0} |-> [c \in Cols |-> 0]]
    /\ sortedOn = {}
    /\ sortedCopy = table
    /\ pc = "ready"
    /\ call = NoCall
    /\ ret = NoRet
    /\ before = table

NextLin ==
    \/ InterpLinCall
    \/ Resume

SpecLin == InitLin /\ [][NextLin]_vars

(***************************************************************************)
(* Properties.                                                             *)
(***************************************************************************)
IsAscending(a) == \A i \in DOMAIN a : (i + 1) \in DOMAIN a => a[i] <= a[i + 1]
IsStrictlyAscending(a) ==
    \A i \in DOMAIN a : (i + 1) \in DOMAIN a => a[i] < a[i + 1]

(* The smallest index i in 0..n with a[i] >= v, n when there is none. *)
LowerBound(a, v) ==
    CHOOSE i \in 0..len(a) :
        /\ \A j \in DOMAIN a : j < i => a[j] < v
        /\ i \in DOMAIN a => a[i] >= v

(* The lowest index of an element of a nearest to v. *)
Nearest(a, v) ==
    CHOOSE i \in DOMAIN a :
        /\ \A j \in DOMAIN a : Abs(a[i] - v) <= Abs(a[j] - v)
        /\ \A j \in DOMAIN a : Abs(a[j] - v) = Abs(a[i] - v) => i <= j

(* The two tables hold the same rows, each as many times. *)
SameRows(t, u) ==
    /\ len(t) = len(u)
    /\ \A r \in Rows : Cardinality({i \in DOMAIN t : t[i] = r})
                         = Cardinality({i \in DOMAIN u : u[i] = r})

Called(op) == pc = "done" /\ call.op = op

(* The spec's error kinds as the code raises them: linear_interp's        *)
(* OutOfRange is interp_lin's ValueError; nothing raises a                *)
(* DegenerateInterval.                                                    *)
OutOfRange == "ValueError"
DegenerateInterval == "DegenerateInterval"

(* C1: for a non-empty ascending array and a value at or above its last   *)
(* element, array_index returns the last valid index len(arr) - 1 (no     *)
(* one-past-the-end index, no read outside 0..len(arr)-1).                *)
C1_LastIndexAtOrAboveLast ==
    (/\ Called("array_index")
     /\ IsAscending(call.arr)
     /\ call.val >= call.arr[len(call.arr) - 1])
    => (ret.kind = "index" /\ ret.val = len(call.arr) - 1)

(* C2: for a non-empty strictly ascending array, array_index returns the  *)
(* index of the element nearest to the value, the lower index on a tie.   *)
C2_NearestIndex ==
    (Called("array_index") /\ IsStrictlyAscending(call.arr))
    => (ret.kind = "index" /\ ret.val = Nearest(call.arr, call.val))

(* C3: on a table ascending on sel_col, when sel_val equals the last      *)
(* row's key and not the first row's, table_interp_val returns the last   *)
(* row's target_col value.                                                *)
C3_ExactLastReturnsTarget ==
    (/\ Called("table_interp_val")
     /\ IsAscending(Column(table, call.sel_col))
     /\ call.sel_val = table[len(table) - 1][call.sel_col]
     /\ call.sel_val # table[0][call.sel_col])
    => (/\ ret.kind = "value"
        /\ ret.val = <<table[len(table) - 1][call.target_col], 1>>)

(* C4: on a table ascending on sel_col, with permit_outside false, a      *)
(* sel_val strictly below the first key or strictly above the last key    *)
(* fails with the OutOfRange error, in both directions.                   *)
C4_OutsideRaisesOutOfRange ==
    (/\ Called("table_interp_val")
     /\ IsAscending(Column(table, call.sel_col))
     /\ ~call.permit_outside
     /\ \/ call.sel_val < table[0][call.sel_col]
        \/ call.sel_val > table[len(table) - 1][call.sel_col])
    => ret.kind = OutOfRange

(* C5: interp_lin on a zero-width interval (xlow = xhigh) fails with the  *)
(* DegenerateInterval error: no division by the zero span, no value.      *)
C5_ZeroSpanRaisesDegenerate ==
    (Called("interp_lin") /\ call.xlow = call.xhigh)
    => ret.kind = DegenerateInterval

(* C6: on a table ascending on sel_col, with permit_outside true,         *)
(* table_interp_val returns the first row's target value for a sel_val    *)
(* below the first key and the last row's for a sel_val above the last    *)
(* key; it never fails there.                                             *)
C6_ClampOutside ==
    (/\ Called("table_interp_val")
     /\ IsAscending(Column(table, call.sel_col))
     /\ call.permit_outside)
    => /\ call.sel_val < table[0][call.sel_col]
          => (/\ ret.kind = "value"
              /\ ret.val = <<table[0][call.target_col], 1>>)
       /\ call.sel_val > table[len(table) - 1][call.sel_col]
          => (/\ ret.kind = "value"
              /\ ret.val = <<table[len(table) - 1][call.target_col], 1>>)

C6_Witness ==
    /\ Called("table_interp_val")
    /\ IsAscending(Column(table, call.sel_col))
    /\ call.permit_outside
    /\ len(table) = 3
    /\ call.sel_val > table[2][call.sel_col]
    /\ table[0][call.target_col] # table[2][call.target_col]
    /\ table[1][call.target_col] # table[2][call.target_col]
    /\ ret = Returned(<<table[2][call.target_col], 1>>)

(* C7: on a table ascending on col (equal keys allowed),                  *)
(* table_insertion_idx returns the smallest index i in 0..row_count with  *)
(* table[i][col] >= v, row_count exactly when v exceeds every key; and it *)
(* is monotonic in v.                                                     *)
C7_InsertionIndexLowerBound ==
    (Called("table_insertion_idx") /\ IsAscending(Column(table, call.col)))
    => LET keys == Column(table, call.col)
       IN /\ ret.kind = "index"
          /\ ret.val = LowerBound(keys, call.val)
          /\ ret.val = len(table) <=> (\A i \in DOMAIN keys : keys[i] < call.val)
          /\ \A a \in ExtVals :
               a <= call.val
               => table_insertion_idx(a, table, call.col) <= ret.val

C7_Witness ==
    /\ Called("table_insertion_idx")
    /\ len(table) = 3
    /\ table[0][call.col] < table[1][call.col]
    /\ table[1][call.col] = table[2][call.col]
    /\ call.val = table[1][call.col]
    /\ ret = ReturnedIndex(1)

(* C8: sort_table_by_col returns a reordering of the rows of its argument *)
(* that is ascending on col; sorting that result again on the same column *)
(* gives a table ascending on col with the same key-column sequence.      *)
C8_SortAscendingPermutation ==
    Called("sort_table_by_col")
    => /\ ret.kind = "table"
       /\ SameRows(before, ret.val)
       /\ IsAscending(Column(ret.val, call.col))
       /\ sortedOn = {call.col}
          => Column(ret.val, call.col) = Column(table, call.col)

C8_Witness ==
    /\ Called("sort_table_by_col")
    /\ sortedOn = {call.col}
    /\ len(table) = 3
    /\ ret.val # table
    /\ SameRows(table, ret.val)
    /\ IsAscending(Column(ret.val, call.col))

(* C9: no call changes the table passed to it, whether it returns or      *)
(* fails, and sort_table_by_col returns a new table; so a table sorted on *)
(* column k stays row-for-row identical and ascending on k through any    *)
(* sequence of calls.                                                     *)
C9_CallsLeaveTableUnchanged ==
    /\ pc = "done" => table = before
    /\ \A k \in sortedOn :
         table = sortedCopy /\ IsAscending(Column(table, k))

C9_Witness ==
    /\ Called("table_interp_val")
    /\ sortedOn = {0}
    /\ len(table) = 3
    /\ ~IsAscending(Column(table, 1))
    /\ ret.kind = "IndexError"
    /\ table = sortedCopy

(* C10: on a table of at least two rows ascending on sel_col, for a       *)
(* sel_val strictly between the first and the last key, the insertion     *)
(* index i satisfies 1 <= i < row_count and key[i-1] < sel_val <= key[i], *)
(* and table_interp_val returns the linear interpolation between rows     *)
(* i-1 and i:  ylow + (x - xlow) * (yhigh - ylow) / (xhigh - xlow).       *)
C10_InteriorInterpolates ==
    (/\ Called("table_interp_val")
     /\ len(table) >= 2
     /\ IsAscending(Column(table, call.sel_col))
     /\ table[0][call.sel_col] < call.sel_val
     /\ call.sel_val < table[len(table) - 1][call.sel_col])
    => LET keys == Column(table, call.sel_col)
           ys == Column(table, call.target_col)
           x == call.sel_val
           i == LowerBound(keys, x)
       IN /\ table_insertion_idx(x, table, call.sel_col) = i
          /\ 1 <= i /\ i < len(table)
          /\ keys[i - 1] < x /\ x <= keys[i]
          /\ ret.kind = "value"
          /\ ret = interp_lin(x, keys[i - 1], keys[i], ys[i - 1], ys[i])
          /\ ret.val[1] * (keys[i] - keys[i - 1])
               = ret.val[2] * (ys[i - 1] * (keys[i] - keys[i - 1])
                               + (x - keys[i - 1]) * (ys[i] - ys[i - 1]))

C10_Witness ==
    /\ Called("table_interp_val")
    /\ len(table) = 3
    /\ IsAscending(Column(table, call.sel_col))
    /\ table[0][call.sel_col] < call.sel_val
    /\ call.sel_val < table[2][call.sel_col]
    /\ table[1][call.sel_col] = table[2][call.sel_col]
    /\ ret.kind = "value"
    /\ ret.val[2] = 2

====
